---- MODULE Spec2Model ----
(***************************************************************************)
(* Model of updatePrice.py: the Shopify price updater.                     *)
(*                                                                         *)
(* main() connects, loads the SKU -> price mapping from the spreadsheet,   *)
(* looks every SKU up, tries to save the new price with a bounded retry,   *)
(* appends one log entry per SKU, writes the log and clears the session.   *)
(* The remote service and the spreadsheet are inputs: every answer of      *)
(* Variant.find and variant.save is a nondeterministic choice, an          *)
(* exception included.  Nothing in the script catches an exception.        *)
(***************************************************************************)
EXTENDS Integers, Sequences, FiniteSets, TLC

VARIABLES
    pc,           \* position of main(), or "call" for a direct call of update_variant_price
    error,        \* which call raised the exception that ended main ("none" if none)
    sheet,        \* rows of the Excel file, as the cells openpyxl hands to pandas
    updates,      \* the dict returned by read_price_updates, in insertion order
    idx,          \* position of the for loop in updates.items()
    variant,      \* the variant returned by find_variant_by_sku, or None
    log_entries,  \* the list of log dicts
    logFile,      \* the CSV files written by to_csv, oldest first
    session,      \* is a session activated on ShopifyResource
    activations,  \* number of activate_session calls
    releases,     \* number of clear_session calls
    queries,      \* the sku of every Variant.find call, oldest first
    matches,      \* the answer of the latest Variant.find call
    answers,      \* the answers of variant.save() for the current row (or direct call)
    sent,         \* the variant.price carried by each of these save() calls
    saves,        \* number of variant.save() calls of the run
    delays,       \* number of time.sleep calls for the current row (or direct call)
    u_pc,         \* position inside update_variant_price
    attempt,      \* loop variable of update_variant_price
    retries,      \* parameter of update_variant_price
    new_price,    \* parameter of update_variant_price
    success       \* value returned by update_variant_price

vars == <<pc, error, sheet, updates, idx, variant, log_entries, logFile, session,
          activations, releases, queries, matches, answers, sent, saves, delays,
          u_pc, attempt, retries, new_price, success>>

mainVars == <<pc, error, sheet, updates, idx, log_entries, logFile, session,
              activations, releases, queries, matches>>

\* ------------------------------------------------------------------------
\* Bounds
\* ------------------------------------------------------------------------
MaxRows == 3       \* rows of the spreadsheet
MaxRetries == 4    \* largest retries argument of a direct call

\* ------------------------------------------------------------------------
\* Constants of the program
\* ------------------------------------------------------------------------
DefaultRetries == 3   \* retries=3 in the signature of update_variant_price

None == [kind |-> "None"]
NaN == [t |-> "nan", v |-> ""]

\* Cells as read_excel gets them: empty, text, or a whole number.
Text(v) == [t |-> "str", v |-> v]
Whole(v) == [t |-> "int", v |-> v]
Row(s, p) == [sku |-> s, price |-> p]

\* The rows a sheet is made of: complete rows with text and numeric SKUs, the
\* same SKU with two prices, a row without SKU and a row without price.
Rows ==
    { Row(Text("A"), Whole("10")),
      Row(Text("A"), Whole("20")),
      Row(Text("B"), Whole("10")),
      Row(Whole("7"), Whole("20")),
      Row(NaN, Whole("20")),
      Row(Text("B"), NaN) }

RECURSIVE SeqsUpTo(_, _)
SeqsUpTo(S, n) ==
    IF n = 0 THEN {<<>>}
    ELSE LET shorter == SeqsUpTo(S, n - 1)
         IN  shorter \cup {Append(s, e) : s \in {q \in shorter : Len(q) = n - 1}, e \in S}

Sheets == SeqsUpTo(Rows, MaxRows)

\* ------------------------------------------------------------------------
\* read_price_updates
\* ------------------------------------------------------------------------
\* The dtype pandas gives a column read by read_excel: text anywhere makes it
\* object, whole numbers without a gap int64, whole numbers with a gap (or
\* nothing but gaps) float64.
ColumnDtype(cells) ==
    IF \E i \in DOMAIN cells : cells[i].t = "str" THEN "object"
    ELSE IF \E i \in DOMAIN cells : cells[i].t = "nan" THEN "float64"
    ELSE "int64"

\* str() of one value of a column of the given dtype.
AsStr(dtype, cell) ==
    IF dtype = "float64" THEN cell.v \o ".0" ELSE cell.v

isna(cell) == cell.t = "nan"

\* df.dropna(subset=[SKU_COLUMN, PRICE_COLUMN])
dropnaSkuOnly(rows) == SelectSeq(rows, LAMBDA r : ~isna(r.sku))
dropna(rows) == SelectSeq(rows, LAMBDA r : ~isna(r.sku) /\ ~isna(r.price))

\* Bug: the first occurrence of a key wins (setdefault).
DictSetKeepFirst(d, k, val) ==
    IF \E i \in DOMAIN d : d[i].sku = k
    THEN d
    ELSE Append(d, [sku |-> k, price |-> val])

\* dict(zip(keys, values)): a key keeps the position of its first occurrence
\* and takes the value of its last one.
DictSet(d, k, val) ==
    IF \E i \in DOMAIN d : d[i].sku = k
    THEN [i \in DOMAIN d |-> IF d[i].sku = k THEN [sku |-> k, price |-> val] ELSE d[i]]
    ELSE Append(d, [sku |-> k, price |-> val])

RECURSIVE DictZip(_, _)
DictZip(pairs, d) ==
    IF pairs = <<>> THEN d
    ELSE DictZip(Tail(pairs), DictSet(d, Head(pairs).sku, Head(pairs).price))

read_price_updates(rows) ==
    LET skuDtype   == ColumnDtype([i \in DOMAIN rows |-> rows[i].sku])
        priceDtype == ColumnDtype([i \in DOMAIN rows |-> rows[i].price])
        df         == dropna(rows)
        pairs      == [i \in DOMAIN df |->
                         [sku   |-> AsStr(skuDtype, df[i].sku),
                          price |-> [num |-> df[i].price.v, dtype |-> priceDtype]]]
    IN  DictZip(pairs, <<>>)

\* str(new_price) of a value of the loaded mapping
StrPrice(p) == IF p.dtype = "float64" THEN p.num \o ".0" ELSE p.num

\* ------------------------------------------------------------------------
\* The remote service
\* ------------------------------------------------------------------------
\* What Variant.find(sku=...) can return for a row: no variant, one variant
\* whose price already is the new one, or two variants of which the first
\* has another price.
Variant(id, sku, price) == [kind |-> "Variant", id |-> id, sku |-> sku, price |-> price]

FindAnswers(sku, price) ==
    { <<>>,
      << Variant(1, sku, StrPrice(price)) >>,
      << Variant(2, sku, "0.00"), Variant(1, sku, StrPrice(price)) >> }

\* What variant.save() can do: report success, report failure, raise.
SaveAnswers == {"True", "False", "raise"}

\* ------------------------------------------------------------------------
\* Initial states
\* ------------------------------------------------------------------------
InitCommon ==
    /\ error = "none"
    /\ updates = <<>>
    /\ idx = 0
    /\ log_entries = <<>>
    /\ logFile = <<>>
    /\ session = FALSE
    /\ activations = 0
    /\ releases = 0
    /\ queries = <<>>
    /\ matches = <<>>
    /\ answers = <<>>
    /\ sent = <<>>
    /\ saves = 0
    /\ delays = 0
    /\ success = "none"

\* python updatePrice.py: main() is about to start on some spreadsheet.
Init ==
    /\ InitCommon
    /\ pc = "start"
    /\ sheet \in Sheets
    /\ variant = None
    /\ u_pc = "idle"
    /\ attempt = 0
    /\ retries = 0
    /\ new_price = None

\* ------------------------------------------------------------------------
\* update_variant_price(variant, new_price, retries, delay)
\* ------------------------------------------------------------------------
\* Bug: a successful save does not return, the loop goes on.
SaveAttemptNoReturn(ans) ==
    /\ u_pc = "attempt"
    /\ attempt <= retries
    /\ variant' = [variant EXCEPT !.price = StrPrice(new_price)]
    /\ answers' = Append(answers, ans)
    /\ sent' = Append(sent, variant'.price)
    /\ saves' = saves + 1
    /\ u_pc' = (IF ans = "raise" THEN "raised" ELSE "sleep")
    /\ success' = success
    /\ UNCHANGED <<mainVars, delays, attempt, retries, new_price>>

\* Bug: the body runs before the bound is tested (a do-while loop).
SaveAttemptAtLeastOnce(ans) ==
    /\ u_pc = "attempt"
    /\ (attempt <= retries \/ attempt = 1)
    /\ variant' = [variant EXCEPT !.price = StrPrice(new_price)]
    /\ answers' = Append(answers, ans)
    /\ sent' = Append(sent, variant'.price)
    /\ saves' = saves + 1
    /\ u_pc' = (IF ans = "True" THEN "returned" ELSE IF ans = "False" THEN "sleep" ELSE "raised")
    /\ success' = (IF ans = "True" THEN "True" ELSE success)
    /\ UNCHANGED <<mainVars, delays, attempt, retries, new_price>>

\* Bug: the price assignment is missing, save() sends the variant as found.
SaveAttemptKeepsPrice(ans) ==
    /\ u_pc = "attempt"
    /\ attempt <= retries
    /\ variant' = variant
    /\ answers' = Append(answers, ans)
    /\ sent' = Append(sent, variant'.price)
    /\ saves' = saves + 1
    /\ u_pc' = (IF ans = "True" THEN "returned" ELSE IF ans = "False" THEN "sleep" ELSE "raised")
    /\ success' = (IF ans = "True" THEN "True" ELSE success)
    /\ UNCHANGED <<mainVars, delays, attempt, retries, new_price>>

\* One pass of the loop body up to the test of success: set the price, save.
SaveAttempt(ans) ==
    /\ u_pc = "attempt"
    /\ attempt <= retries
    /\ variant' = [variant EXCEPT !.price = StrPrice(new_price)]
    /\ answers' = Append(answers, ans)
    /\ sent' = Append(sent, variant'.price)
    /\ saves' = saves + 1
    /\ \/ /\ ans = "True"
          /\ u_pc' = "returned"
          /\ success' = "True"
       \/ /\ ans = "False"
          /\ u_pc' = "sleep"
          /\ success' = success
       \/ /\ ans = "raise"
          /\ u_pc' = "raised"
          /\ success' = success
    /\ UNCHANGED <<mainVars, delays, attempt, retries, new_price>>

\* Bug: the loop variable does not advance (a while loop without increment).
SleepNoAdvance ==
    /\ u_pc = "sleep"
    /\ delays' = delays + 1
    /\ attempt' = attempt
    /\ u_pc' = "attempt"
    /\ UNCHANGED <<mainVars, variant, answers, sent, saves, retries, new_price, success>>

\* The else branch: print, time.sleep(delay), next value of the loop variable.
Sleep ==
    /\ u_pc = "sleep"
    /\ delays' = delays + 1
    /\ attempt' = attempt + 1
    /\ u_pc' = "attempt"
    /\ UNCHANGED <<mainVars, variant, answers, sent, saves, retries, new_price, success>>

\* Bug: range(1, retries) instead of range(1, retries + 1): the loop can end
\* one pass early.
ReturnFalseEarly ==
    /\ u_pc = "attempt"
    /\ attempt >= retries
    /\ u_pc' = "returned"
    /\ success' = "False"
    /\ UNCHANGED <<mainVars, variant, answers, sent, saves, delays, attempt, retries, new_price>>

\* The range is exhausted: return False.  With retries <= 0 the range is empty
\* and this is the only step of the call.
ReturnFalse ==
    /\ u_pc = "attempt"
    /\ attempt > retries
    /\ u_pc' = "returned"
    /\ success' = "False"
    /\ UNCHANGED <<mainVars, variant, answers, sent, saves, delays, attempt, retries, new_price>>

update_variant_price ==
    \/ \E ans \in SaveAnswers : SaveAttempt(ans)
    \/ Sleep
    \/ ReturnFalse

\* ------------------------------------------------------------------------
\* main()
\* ------------------------------------------------------------------------
updaterVars == <<u_pc, attempt, retries, new_price, success>>
rowVars == <<variant, answers, sent, saves, delays>>

\* The loop variables of "for sku, new_price in updates.items()".
sku == updates[idx].sku
price == updates[idx].price

LogEntry(s, p, status) == [SKU |-> s, Price |-> p, Status |-> status]

\* The status main logs for a value returned by update_variant_price.
StatusOf(returned) == IF returned = "True" THEN "Updated" ELSE "Failed to update"

\* Bug: the session is built but never activated.
connect_to_shopifyNoActivate ==
    /\ pc = "start"
    /\ \/ /\ pc' = "read"
          /\ error' = error
       \/ /\ pc' = "aborted"
          /\ error' = "connect"
    /\ UNCHANGED <<session, activations, sheet, updates, idx, log_entries, logFile, releases,
                   queries, matches, rowVars, updaterVars>>

\* connect_to_shopify(): build the session and activate it, or raise.
connect_to_shopify ==
    /\ pc = "start"
    /\ \/ /\ session' = TRUE
          /\ activations' = activations + 1
          /\ pc' = "read"
          /\ error' = error
       \/ /\ pc' = "aborted"
          /\ error' = "connect"
          /\ UNCHANGED <<session, activations>>
    /\ UNCHANGED <<sheet, updates, idx, log_entries, logFile, releases, queries, matches,
                   rowVars, updaterVars>>

\* Bug: a failing read_excel is swallowed and the run goes on without data.
LoadUpdatesSwallowsError ==
    /\ pc = "read"
    /\ \/ /\ updates' = read_price_updates(sheet)
          /\ error' = error
       \/ /\ updates' = <<>>
          /\ error' = "load"
    /\ pc' = "loop"
    /\ UNCHANGED <<sheet, idx, log_entries, logFile, session, activations, releases,
                   queries, matches, rowVars, updaterVars>>

\* updates = read_price_updates(EXCEL_FILE), or read_excel raises.
LoadUpdates ==
    /\ pc = "read"
    /\ \/ /\ updates' = read_price_updates(sheet)
          /\ pc' = "loop"
          /\ error' = error
       \/ /\ pc' = "aborted"
          /\ error' = "load"
          /\ updates' = updates
    /\ UNCHANGED <<sheet, idx, log_entries, logFile, session, activations, releases,
                   queries, matches, rowVars, updaterVars>>

\* The for statement takes the next item of updates.items().
ForNext ==
    /\ pc = "loop"
    /\ idx < Len(updates)
    /\ idx' = idx + 1
    /\ pc' = "find"
    /\ UNCHANGED <<error, sheet, updates, log_entries, logFile, session, activations,
                   releases, queries, matches, rowVars, updaterVars>>

\* Bug: a lookup that finds nothing is issued a second time.
find_variant_by_skuAgainWhenEmpty ==
    /\ pc = "find"
    /\ answers' = <<>>
    /\ sent' = <<>>
    /\ delays' = 0
    /\ \/ \E variants \in FindAnswers(sku, price) :
            /\ matches' = variants
            /\ variant' = IF variants # <<>> THEN variants[1] ELSE None
            /\ queries' = IF variants # <<>> THEN Append(queries, sku)
                                              ELSE Append(Append(queries, sku), sku)
            /\ pc' = "branch"
            /\ error' = error
       \/ /\ pc' = "aborted"
          /\ error' = "lookup"
          /\ queries' = Append(queries, sku)
          /\ UNCHANGED <<matches, variant>>
    /\ UNCHANGED <<sheet, updates, idx, log_entries, logFile, session, activations,
                   releases, saves, updaterVars>>

\* variant = find_variant_by_sku(sku): the first variant found, None when
\* there is none, or Variant.find raises.
find_variant_by_sku ==
    /\ pc = "find"
    /\ queries' = Append(queries, sku)
    /\ answers' = <<>>
    /\ sent' = <<>>
    /\ delays' = 0
    /\ \/ \E variants \in FindAnswers(sku, price) :
            /\ matches' = variants
            /\ variant' = IF variants # <<>> THEN variants[1] ELSE None
            /\ pc' = "branch"
            /\ error' = error
       \/ /\ pc' = "aborted"
          /\ error' = "lookup"
          /\ UNCHANGED <<matches, variant>>
    /\ UNCHANGED <<sheet, updates, idx, log_entries, logFile, session, activations,
                   releases, saves, updaterVars>>

\* Bug: a variant whose price already is the new one counts as updated
\* without a save.
CallUpdateShortCircuit ==
    /\ pc = "branch"
    /\ variant # None
    /\ pc' = "updating"
    /\ attempt' = 1
    /\ retries' = DefaultRetries
    /\ new_price' = price
    /\ IF variant.price = StrPrice(price)
          THEN u_pc' = "returned" /\ success' = "True"
          ELSE u_pc' = "attempt" /\ success' = success
    /\ UNCHANGED <<error, sheet, updates, idx, log_entries, logFile, session, activations,
                   releases, queries, matches, rowVars>>

\* if variant: success = update_variant_price(variant, new_price)
CallUpdate ==
    /\ pc = "branch"
    /\ variant # None
    /\ pc' = "updating"
    /\ u_pc' = "attempt"
    /\ attempt' = 1
    /\ retries' = DefaultRetries
    /\ new_price' = price
    /\ UNCHANGED <<error, sheet, updates, idx, log_entries, logFile, session, activations,
                   releases, queries, matches, rowVars, success>>

\* Bug: a SKU that is not found is not logged.
LogNotFoundNoAppend ==
    /\ pc = "branch"
    /\ variant = None
    /\ pc' = "loop"
    /\ UNCHANGED <<error, sheet, updates, idx, log_entries, logFile, session, activations,
                   releases, queries, matches, rowVars, updaterVars>>

\* Bug: log_entries.insert(0, ...) instead of append.
LogNotFoundPrepend ==
    /\ pc = "branch"
    /\ variant = None
    /\ log_entries' = <<LogEntry(sku, price, "SKU not found")>> \o log_entries
    /\ pc' = "loop"
    /\ UNCHANGED <<error, sheet, updates, idx, logFile, session, activations, releases,
                   queries, matches, rowVars, updaterVars>>

\* else: log "SKU not found"
LogNotFound ==
    /\ pc = "branch"
    /\ variant = None
    /\ log_entries' = Append(log_entries, LogEntry(sku, price, "SKU not found"))
    /\ pc' = "loop"
    /\ UNCHANGED <<error, sheet, updates, idx, logFile, session, activations, releases,
                   queries, matches, rowVars, updaterVars>>

\* Bug: the value returned by update_variant_price is not tested.
LogUpdateResultIgnoresSuccess ==
    /\ pc = "updating"
    /\ u_pc = "returned"
    /\ log_entries' = Append(log_entries, LogEntry(sku, price, "Updated"))
    /\ pc' = "loop"
    /\ u_pc' = "idle"
    /\ UNCHANGED <<error, sheet, updates, idx, logFile, session, activations, releases,
                   queries, matches, rowVars, attempt, retries, new_price, success>>

\* Bug: a row that failed is logged and then taken up again from the lookup.
LogUpdateResultRetriesRow ==
    /\ pc = "updating"
    /\ u_pc = "returned"
    /\ log_entries' = Append(log_entries,
           LogEntry(sku, price, IF success = "True" THEN "Updated" ELSE "Failed to update"))
    /\ pc' = (IF success = "True" THEN "loop" ELSE "find")
    /\ u_pc' = "idle"
    /\ UNCHANGED <<error, sheet, updates, idx, logFile, session, activations, releases,
                   queries, matches, rowVars, attempt, retries, new_price, success>>

\* update_variant_price returned: log "Updated" or "Failed to update".
LogUpdateResult ==
    /\ pc = "updating"
    /\ u_pc = "returned"
    /\ log_entries' = Append(log_entries, LogEntry(sku, price, StatusOf(success)))
    /\ pc' = "loop"
    /\ u_pc' = "idle"
    /\ UNCHANGED <<error, sheet, updates, idx, logFile, session, activations, releases,
                   queries, matches, rowVars, attempt, retries, new_price, success>>

\* variant.save() raised: nothing catches it, main ends with the exception.
SaveErrorPropagates ==
    /\ pc = "updating"
    /\ u_pc = "raised"
    /\ pc' = "aborted"
    /\ error' = "save"
    /\ u_pc' = "idle"
    /\ UNCHANGED <<sheet, updates, idx, log_entries, logFile, session, activations,
                   releases, queries, matches, rowVars, attempt, retries, new_price, success>>

\* Bug: the to_csv call sits inside the loop and ends it.
WriteLogInsideLoop ==
    /\ pc = "loop"
    /\ logFile' = Append(logFile, log_entries)
    /\ pc' = "clear"
    /\ UNCHANGED <<error, sheet, updates, idx, log_entries, session, activations, releases,
                   queries, matches, rowVars, updaterVars>>

\* The loop is over: pd.DataFrame(log_entries).to_csv(LOG_FILE)
WriteLog ==
    /\ pc = "loop"
    /\ idx = Len(updates)
    /\ logFile' = Append(logFile, log_entries)
    /\ pc' = "clear"
    /\ UNCHANGED <<error, sheet, updates, idx, log_entries, session, activations, releases,
                   queries, matches, rowVars, updaterVars>>

\* shopify.ShopifyResource.clear_session()
ClearSession ==
    /\ pc = "clear"
    /\ session' = FALSE
    /\ releases' = releases + 1
    /\ pc' = "done"
    /\ UNCHANGED <<error, sheet, updates, idx, log_entries, logFile, activations,
                   queries, matches, rowVars, updaterVars>>

main ==
    \/ connect_to_shopify
    \/ LoadUpdates
    \/ ForNext
    \/ find_variant_by_sku
    \/ CallUpdate
    \/ LogNotFound
    \/ LogUpdateResult
    \/ SaveErrorPropagates
    \/ WriteLog
    \/ ClearSession

Next == main \/ update_variant_price

Spec == Init /\ [][Next]_vars

\* The script is one thread that runs until main returns or an exception ends
\* it: a step that can be taken is taken.
SpecFair == Init /\ [][Next]_vars /\ WF_vars(Next)

\* ------------------------------------------------------------------------
\* update_variant_price called on its own, with any retries argument
\* ------------------------------------------------------------------------
CallPrices == {[num |-> n, dtype |-> d] : n \in {"10", "20"}, d \in {"int64", "float64"}}

InitCall ==
    /\ InitCommon
    /\ pc = "call"
    /\ sheet = <<>>
    /\ new_price \in CallPrices
    /\ variant \in {Variant(1, "A", p) : p \in {"10", "0.00"}}
    /\ retries \in (-1)..MaxRetries
    /\ u_pc = "attempt"
    /\ attempt = 1

NextCall == update_variant_price

SpecCall == InitCall /\ [][NextCall]_vars

\* ------------------------------------------------------------------------
\* Properties
\* ------------------------------------------------------------------------
AllFalse(s) == \A i \in DOMAIN s : s[i] = "False"

\* The string form read_price_updates gives the identifiers of the sheet.
SkuDtype == ColumnDtype([i \in DOMAIN sheet |-> sheet[i].sku])
Complete(r) == r.sku.t # "nan" /\ r.price.t # "nan"
CompleteRows == {i \in DOMAIN sheet : Complete(sheet[i])}
SurvivingIds == {AsStr(SkuDtype, sheet[i].sku) : i \in CompleteRows}
Keys == {updates[i].sku : i \in DOMAIN updates}
Loaded == pc \notin {"start", "read"} /\ error \notin {"connect", "load"}

\* C1 (as stated): once the log is written, its length is the number of rows
\* of the sheet that survive the drop-incomplete filter.
C1_LogLengthIsSurvivingRowCount ==
    logFile # <<>> => Len(logFile[1]) = Cardinality(CompleteRows)

\* C1 (amended): once the log is written, every entry of the loaded mapping
\* has exactly one outcome record, so the length of the log is the number of
\* entries of the mapping, which is the number of distinct identifiers among
\* the rows that survive the filter.
C1_OneOutcomePerEntry ==
    logFile # <<>> =>
        LET log == logFile[1]
        IN  /\ Len(log) = Len(updates)
            /\ \A e \in DOMAIN updates :
                 Cardinality({i \in DOMAIN log : log[i].SKU = updates[e].sku}) = 1
            /\ Len(log) = Cardinality(SurvivingIds)

C1_Witness ==
    /\ logFile # <<>>
    /\ Len(logFile[1]) = 2
    /\ Cardinality(CompleteRows) = 3
    /\ logFile[1][1].Status = "SKU not found"
    /\ logFile[1][2].Status = "Updated"

\* C2: a call with retries >= 1 whose saves all report failure returns False
\* after exactly retries save attempts, and never makes more.
C2_RetryCapAttempts ==
    (retries >= 1 /\ AllFalse(answers)) =>
        /\ Len(answers) <= retries
        /\ u_pc = "returned" => (success = "False" /\ Len(answers) = retries /\ saves = retries)

C2_Witness ==
    /\ u_pc = "returned"
    /\ retries = 3
    /\ answers = <<"False", "False", "False">>
    /\ success = "False"

\* C3: a call whose saves all report failure has slept retries - 1 times when
\* it returns False: no delay follows the last failed attempt.
C3_DelaysBetweenAttemptsOnly ==
    (u_pc = "returned" /\ retries >= 1 /\ AllFalse(answers) /\ success = "False") =>
        delays = retries - 1

\* C4: when save reports failure on attempts 1..k-1 and success on attempt k,
\* the call has returned True with exactly k saves and k - 1 delays.
C4_RetrySuccess ==
    \A k \in DOMAIN answers :
        (answers[k] = "True" /\ \A i \in 1..(k - 1) : answers[i] = "False") =>
            /\ k <= retries
            /\ Len(answers) = k
            /\ saves = k
            /\ delays = k - 1
            /\ u_pc = "returned"
            /\ success = "True"

C4_Witness ==
    /\ u_pc = "returned"
    /\ success = "True"
    /\ retries = 3
    /\ answers = <<"False", "False", "True">>

\* C5: the status logged for a row is "SKU not found" iff its lookup returned
\* no match, "Updated" iff it returned a match and a save within the cap
\* succeeded, "Failed to update" iff it returned a match and all saves up to
\* the cap failed; no other status is logged.
C5_LookupBranching ==
    /\ \A i \in DOMAIN log_entries :
         log_entries[i].Status \in {"SKU not found", "Updated", "Failed to update"}
    /\ (idx > 0 /\ Len(log_entries) = idx) =>
         LET status == log_entries[idx].Status
         IN  /\ status = "SKU not found" <=> matches = <<>>
             /\ status = "Updated" <=>
                  /\ matches # <<>>
                  /\ \E k \in 1..DefaultRetries : k <= Len(answers) /\ answers[k] = "True"
             /\ status = "Failed to update" <=>
                  /\ matches # <<>>
                  /\ Len(answers) = DefaultRetries
                  /\ AllFalse(answers)

C5_Witness ==
    /\ Len(log_entries) = 3
    /\ idx = 3
    /\ log_entries[1].Status = "Updated"
    /\ log_entries[2].Status = "SKU not found"
    /\ log_entries[3].Status = "Failed to update"
    /\ answers = <<"False", "False", "False">>

\* C6: a lookup or a save that raises for some row does not end the run: the
\* row gets an outcome and the run goes on to the remaining rows and the log.
C6_RowErrorsNeverAbort ==
    error \in {"lookup", "save"} => (pc # "aborted" /\ Len(log_entries) >= idx)

\* C7: the session is activated exactly once, and whenever the run has ended,
\* complete or aborted, it has been released exactly once.
C7_SessionReleasedOnEveryEnd ==
    /\ activations <= 1
    /\ queries # <<>> => activations = 1
    /\ (pc \in {"done", "aborted"} /\ activations = 1) => (releases = 1 /\ ~session)

\* C8: the i-th log entry is the outcome of the i-th item of the loaded
\* mapping, and the i-th lookup is for its SKU, whatever the outcomes are.
C8_OutputOrdering ==
    /\ Len(log_entries) <= Len(updates)
    /\ \A i \in DOMAIN log_entries :
         /\ log_entries[i].SKU = updates[i].sku
         /\ log_entries[i].Price = updates[i].price
    /\ Len(queries) <= Len(updates)
    /\ \A i \in DOMAIN queries : queries[i] = updates[i].sku
    /\ \A f \in DOMAIN logFile : \A i \in DOMAIN logFile[f] :
         i <= Len(updates) /\ logFile[f][i].SKU = updates[i].sku

C8_Witness ==
    /\ logFile # <<>>
    /\ Len(logFile[1]) = 3
    /\ logFile[1][1].Status = "SKU not found"
    /\ logFile[1][2].Status = "Failed to update"
    /\ logFile[1][3].Status = "Updated"
    /\ logFile[1][1].SKU = "B"
    /\ logFile[1][2].SKU = "7"
    /\ logFile[1][3].SKU = "A"

\* C9: when connecting or loading the file fails, the run is over with no
\* row processed: no lookup, no save, no outcome, no log file.
C9_FailFast ==
    error \in {"connect", "load"} =>
        /\ pc = "aborted"
        /\ idx = 0
        /\ queries = <<>>
        /\ saves = 0
        /\ log_entries = <<>>
        /\ logFile = <<>>

C9_Witness ==
    /\ pc = "aborted"
    /\ error = "load"
    /\ session
    /\ Cardinality(CompleteRows) >= 2

\* C10: the loaded mapping has a key for an identifier exactly when some row
\* with both the identifier and the price present carries it, and the price
\* of a key comes from such a row; rows A/10, -/20, B/- load to {"A": 10}.
\* Identifiers are compared in the string form the loader gives the column.
ExampleSheet ==
    << Row(Text("A"), Whole("10")), Row(NaN, Whole("20")), Row(Text("B"), NaN) >>

C10_LoaderDropRule ==
    Loaded =>
        /\ Keys = SurvivingIds
        /\ \A e \in DOMAIN updates : \E i \in CompleteRows :
             /\ AsStr(SkuDtype, sheet[i].sku) = updates[e].sku
             /\ sheet[i].price.v = updates[e].price.num
        /\ sheet = ExampleSheet =>
             /\ Len(updates) = 1
             /\ updates[1].sku = "A"
             /\ updates[1].price.num = "10"

C10_Witness ==
    /\ Loaded
    /\ sheet = ExampleSheet
    /\ Keys = {"A"}


\* C11: when several complete rows carry the same identifier, the mapping has
\* one entry for it, with the price of the last of these rows; the identifier
\* is looked up and logged at most once, exactly once in a completed run, and
\* logged with that price.
RowsOf(k) == {i \in CompleteRows : AsStr(SkuDtype, sheet[i].sku) = k}
LastPrice(k) == sheet[CHOOSE i \in RowsOf(k) : \A j \in RowsOf(k) : j <= i].price.v
Count(s, k) == Cardinality({i \in DOMAIN s : s[i] = k})

C11_DuplicateLastWins ==
    Loaded =>
        /\ \A e1, e2 \in DOMAIN updates : updates[e1].sku = updates[e2].sku => e1 = e2
        /\ \A e \in DOMAIN updates :
             /\ RowsOf(updates[e].sku) # {}
             /\ updates[e].price.num = LastPrice(updates[e].sku)
             /\ Count(queries, updates[e].sku) <= 1
             /\ Count([i \in DOMAIN log_entries |-> log_entries[i].SKU], updates[e].sku) <= 1
             /\ pc = "done" =>
                  /\ Count(queries, updates[e].sku) = 1
                  /\ Count([i \in DOMAIN log_entries |-> log_entries[i].SKU], updates[e].sku) = 1
        /\ \A i \in DOMAIN log_entries :
             log_entries[i].Price.num = LastPrice(log_entries[i].SKU)

C11_Witness ==
    /\ pc = "done"
    /\ sheet = << Row(Text("A"), Whole("10")), Row(Text("B"), Whole("10")),
                  Row(Text("A"), Whole("20")) >>
    /\ Len(log_entries) = 2
    /\ log_entries[1].SKU = "A"
    /\ log_entries[1].Price.num = "20"
    /\ log_entries[2].SKU = "B"


\* C12: the log is written once per completed run, when every loaded row has
\* its outcome and while the session is still active; it is not written while
\* rows remain, and neither the file nor the list changes after the write.
C12_LogWrittenOnceAtEnd ==
    /\ Len(logFile) <= 1
    /\ logFile # <<>> =>
         /\ pc \in {"clear", "done"}
         /\ idx = Len(updates)
         /\ Len(log_entries) = Len(updates)
         /\ logFile[1] = log_entries
    /\ pc = "clear" => (session /\ releases = 0 /\ Len(logFile) = 1)
    /\ pc = "done" => Len(logFile) = 1
    /\ releases > 0 => (pc = "done" /\ logFile # <<>>)

C12_Witness ==
    /\ pc = "done"
    /\ Len(logFile) = 1
    /\ Len(logFile[1]) = 3
    /\ releases = 1


\* C13: the outcome of a row whose lookup found a variant does not depend on
\* the price the variant came with: a save is attempted even when that price
\* already is the new one, and the row is Updated when the first save succeeds
\* (its status is a function of the save answers alone).
AlreadyEqual == matches # <<>> /\ matches[1].price = StrPrice(price)

C13_NoShortCircuit ==
    (idx > 0 /\ Len(log_entries) = idx /\ matches # <<>>) =>
        /\ Len(answers) >= 1
        /\ sent[1] = StrPrice(price)
        /\ answers[1] = "True" => (log_entries[idx].Status = "Updated" /\ Len(answers) = 1)
        /\ log_entries[idx].Status =
             (IF \E k \in DOMAIN answers : answers[k] = "True"
              THEN "Updated" ELSE "Failed to update")

C13_Witness ==
    /\ idx = 1
    /\ Len(log_entries) = 1
    /\ AlreadyEqual
    /\ answers = <<"True">>
    /\ log_entries[1].Status = "Updated"


\* C14: a row whose lookup returns no match is logged "SKU not found" with no
\* save and no delay; a save is issued only for a row whose lookup returned a
\* variant; a lookup or a save is issued only for a row that has no outcome
\* yet.
RowLogged == idx > 0 /\ Len(log_entries) = idx

C14_NotFoundIsTerminal ==
    /\ (RowLogged /\ matches = <<>>) =>
         /\ log_entries[idx].Status = "SKU not found"
         /\ answers = <<>>
         /\ delays = 0
    /\ RowLogged => u_pc = "idle"
    /\ answers # <<>> => matches # <<>>

C14_RowStateMachine ==
    /\ []C14_NotFoundIsTerminal
    /\ [][saves' # saves =>
            (Len(log_entries) = idx - 1 /\ matches # <<>> /\ variant # None)]_vars
    /\ [][queries' # queries =>
            (Len(log_entries) = idx - 1 /\ Len(queries) = idx - 1)]_vars
    /\ [][Len(log_entries') > Len(log_entries) =>
            (Len(log_entries') = idx /\ idx' = idx)]_vars

C14_Witness ==
    /\ idx = 2
    /\ Len(log_entries) = 2
    /\ log_entries[1].Status = "Failed to update"
    /\ log_entries[2].Status = "SKU not found"
    /\ matches = <<>>
    /\ saves = 3
    /\ answers = <<>>


\* C15: every row the loop reaches is looked up exactly once, whatever the
\* lookup returns (no match, a match, an error); only save is repeated.
C15_OneLookupPerRow ==
    /\ pc = "find" => Len(queries) = idx - 1
    /\ pc # "find" => Len(queries) = idx
    /\ \A i \in DOMAIN queries : i <= Len(updates) /\ Count(queries, updates[i].sku) = 1
    /\ pc \in {"clear", "done"} => Len(queries) = Len(updates)

C15_Witness ==
    /\ pc = "done"
    /\ Len(queries) = 3
    /\ log_entries[1].Status = "SKU not found"
    /\ log_entries[3].Status = "Updated"
    /\ answers = <<"False", "False", "True">>


\* C16: a save that raises counts as a failed attempt: it is followed by a
\* delay and, while attempts remain, by another attempt; it never ends the
\* run, and a row whose attempts all failed or raised is logged "Failed to
\* update".
C16_WriteErrorRetried ==
    \A k \in DOMAIN answers :
        answers[k] = "raise" =>
            /\ u_pc # "raised"
            /\ error # "save"
            /\ (RowLogged /\ \A i \in DOMAIN answers : answers[i] # "True") =>
                 (Len(answers) = DefaultRetries /\ log_entries[idx].Status = "Failed to update")


\* C17: every save call of a row, the first and each retry, carries
\* variant.price = str(new_price), and a row logged "Updated" was saved with
\* exactly the string form of the price it is logged with.
C17_PriceSetBeforeEverySave ==
    /\ Len(sent) = Len(answers)
    /\ \A i \in DOMAIN sent : sent[i] = StrPrice(new_price)
    /\ (pc # "find" /\ sent # <<>>) => new_price = price
    /\ (RowLogged /\ log_entries[idx].Status = "Updated") =>
         /\ answers[Len(answers)] = "True"
         /\ sent[Len(sent)] = StrPrice(log_entries[idx].Price)
         /\ variant.price = StrPrice(log_entries[idx].Price)

C17_Witness ==
    /\ RowLogged
    /\ log_entries[idx].Status = "Updated"
    /\ matches[1].price = "0.00"
    /\ answers = <<"False", "True">>
    /\ sent = <<"10.0", "10.0">>


\* C18: every Variant.find and every variant.save() of a run is issued while
\* the session is active: after activate_session and before clear_session.
C18_SessionState ==
    /\ session <=> (activations = 1 /\ releases = 0)
    /\ (queries # <<>> \/ saves > 0) => activations = 1
    /\ pc \in {"find", "branch", "updating"} => session

C18_RemoteCallsInsideSession ==
    /\ []C18_SessionState
    /\ [][(queries' # queries \/ saves' # saves) =>
            (session /\ session' /\ activations = 1 /\ releases = 0)]_vars

C18_Witness ==
    /\ pc = "done"
    /\ ~session
    /\ releases = 1
    /\ Len(queries) = 3
    /\ saves = 5


\* C19: once the mapping of n rows is loaded, and unless a lookup or a save
\* raises, the run reaches the log write and the session release; it issues
\* at most n lookups and at most 3 saves per lookup, whatever the answers.
C19_CallBounds ==
    /\ Len(queries) <= Len(updates)
    /\ saves <= DefaultRetries * Len(queries)
    /\ Len(answers) <= DefaultRetries
    /\ pc = "done" => (Len(logFile) = 1 /\ releases = 1 /\ saves <= DefaultRetries * Len(updates))

C19_Terminates ==
    /\ []C19_CallBounds
    /\ (pc = "loop") ~> (pc = "done" \/ error \in {"lookup", "save"})

C19_Witness ==
    /\ pc = "done"
    /\ Len(updates) = 3
    /\ Len(queries) = 3
    /\ saves = 9
    /\ releases = 1


\* C20: a call with retries <= 0 makes no save and no delay, leaves the
\* variant as it was, and returns False, for which main logs "Failed to
\* update".
C20_NoAttemptState ==
    retries <= 0 =>
        /\ answers = <<>>
        /\ sent = <<>>
        /\ saves = 0
        /\ delays = 0
        /\ u_pc \in {"attempt", "returned"}
        /\ u_pc = "returned" => (success = "False" /\ StatusOf(success) = "Failed to update")

C20_ZeroRetries ==
    /\ []C20_NoAttemptState
    /\ [][retries <= 0 => (variant' = variant /\ (u_pc' # u_pc => u_pc' = "returned"))]_vars

C20_Witness ==
    /\ retries = 0
    /\ u_pc = "returned"
    /\ success = "False"
    /\ saves = 0
    /\ variant.price = "0.00"
    /\ StrPrice(new_price) = "10.0"

====
